---- MODULE Spec2Model ----
(***************************************************************************)
(* The game-mode state machine of the brick breaker (src/game/mod.rs), the *)
(* ball plugin's schedule (src/game/ball/mod.rs) and the menu plugin       *)
(* (src/menu/mod.rs), as the Bevy application runs them.                   *)
(*                                                                         *)
(* One frame ("tick") of the application is                                *)
(*   First            the event queues are double-buffered: the older      *)
(*                    buffer is dropped, the newer one becomes the older   *)
(*   PreUpdate        the just-pressed inputs of the frame are set         *)
(*                    (one step of the model with First)                   *)
(*   StateTransition  the pending NextState of AppState and of InGameState *)
(*                    is applied, running OnExit / OnEnter schedules       *)
(*   Update           every registered system whose run conditions hold    *)
(*                    runs once                                            *)
(*                                                                         *)
(* Systems added to a schedule in a plain tuple carry no ordering: only    *)
(* .chain() orders them.  The executor may therefore run them in any       *)
(* order, and the model explores every order of systems that share data.   *)
(* Systems of different access classes commute (they touch disjoint        *)
(* variables), so the classes are run one after the other:                 *)
(*   resources   test_settings, collect_collectables, keep_spawning_bricks *)
(*   machine     event producers and the transition checks; the checks of  *)
(*               NextState<AppState> come before those of                  *)
(*               NextState<InGameState> in the frames where no system      *)
(*               writes event queues of both                               *)
(*   kinematics  move_balls and the ball plugin's chained systems          *)
(*                                                                         *)
(* An input that a single system reads (the arrow keys and the mouse by    *)
(* check_preparation_end_condition, Q, E and the digits by test_settings,  *)
(* the pickups, the elapsed time) is chosen where that system reads it;    *)
(* the Escape key, read by two systems, is chosen when the frame starts.   *)
(* An environment env bounds these choices.                                *)
(***************************************************************************)
EXTENDS Integers, Sequences, FiniteSets, TLC

\* ---------------------------------------------------------------- bounds
\* occurrences of one event type a producer writes in one run
MaxEvents == 2
\* keys that become just-pressed in one frame
MaxKeys == 2
\* the Score is counted up to this value
MaxScore == 1

\* ------------------------------------------------------ program constants
\* step range and default of PaddleSize, PaddleSpeed, BallSize, BallSpeed
SettingMin == 0
SettingMax == 2
SettingDefault == 1
\* BrickRowSpawnCooldown::default(), in ticks
CooldownDefault == 1

AppStates == {"Menu", "InGame", "RestartInGame"}

\* enum InGameState; "None" is its #[default]
InGameStates == {"None", "Preparation", "Play", "Pause", "Summary"}

\* NextState(None): no transition requested
NoRequest == "NoRequest"

EventTypes ==
  {"MenuRequested", "RestartRequested", "TogglePauseRequested", "LastBallDestroyed"}

ArrowKeys == {"ArrowLeft", "ArrowRight"}

Digits == {1, 2, 3, 4, 5}

DefaultSettings ==
  [paddle_size |-> SettingDefault, paddle_speed |-> SettingDefault,
   ball_size |-> SettingDefault, ball_speed |-> SettingDefault,
   brick_ghost |-> FALSE]

VARIABLES
  appState,          \* State<AppState>
  nextAppState,      \* NextState<AppState>
  inGameState,       \* State<InGameState>
  nextInGameState,   \* NextState<InGameState>
  transitionOrder,   \* which apply_state_transition system runs first
  escape,            \* ButtonInput<KeyCode>: Escape is just pressed
  events,            \* per event type: occurrences its reader has not read,
                     \*   in the newer and in the older buffer
  pc,                \* the schedule the frame is in
  todo,              \* systems of Update still to run in this frame
  balls,             \* live Ball entities
  score,             \* Score
  cooldown,          \* BrickRowSpawnCooldown
  settings,          \* PaddleSize, PaddleSpeed, BallSize, BallSpeed, BrickGhost
  ballSteps,         \* what has been applied to the balls in this frame
  views,             \* per session: mode views spawned by OnEnter(InGameState)
  lastBallDestroyed, \* per session: LastBallDestroyed events emitted
  log                \* what the systems of the running frame did

vars ==
  <<appState, nextAppState, inGameState, nextInGameState, transitionOrder,
    escape, events, pc, todo, balls, score, cooldown, settings, ballSteps,
    views, lastBallDestroyed, log>>

\* ------------------------------------------------------------ event queues
NoEvents == [t \in EventTypes |-> [new |-> 0, old |-> 0]]

\* EventReader::is_empty
is_empty(ev, t) == ev[t].new + ev[t].old = 0

\* EventReader::clear: the reader's cursor moves past everything written
clear(ev, t) == [ev EXCEPT ![t] = [new |-> 0, old |-> 0]]

\* EventWriter::send, k times
send(ev, t, k) == [ev EXCEPT ![t].new = @ + k]

\* Events::update, every frame in First
event_update(ev) == [t \in EventTypes |-> [new |-> 0, old |-> ev[t].new]]

\* ------------------------------------------------------------- small helpers
Cap(n) == IF n > 2 THEN 2 ELSE n

NoViews == [preparation |-> 0, summary |-> 0]

\* ------------------------------------------- OnEnter / OnExit of AppState
\* A world w is the part of the application the state transitions touch.
World ==
  [app |-> appState, nextApp |-> nextAppState, mode |-> inGameState,
   nextMode |-> nextInGameState, balls |-> balls, score |-> score,
   cooldown |-> cooldown, settings |-> settings, views |-> views,
   lastBallDestroyed |-> lastBallDestroyed]

start_up(w) == [w EXCEPT !.nextMode = "Preparation"]

\* a slip: the Score and the cooldown are not reset
clean_up_settings_only(w) ==
  [w EXCEPT !.nextMode = "None", !.settings = DefaultSettings]

clean_up(w) ==
  [w EXCEPT !.nextMode = "None",
            !.score = 0,
            !.cooldown = CooldownDefault,
            !.settings = DefaultSettings]

continue_restart_game(w) == [w EXCEPT !.nextApp = "InGame"]

\* GamePlugin: OnEnter(AppState::InGame), spawn_first_ball
spawn_first_ball(w) == [w EXCEPT !.balls = @ + 1]

\* BallPlugin: OnEnter(AppState::InGame), spawn_ball
spawn_ball(w) == [w EXCEPT !.balls = @ + 1]

\* OnExit(AppState::InGame), despawn_balls (registered by both plugins)
despawn_balls(w) == [w EXCEPT !.balls = 0]

OnExitAppState(exited, w) ==
  IF exited = "InGame" THEN clean_up(despawn_balls(w)) ELSE w

\* the per-session counts start with the session
OnEnterAppState(entered, w) ==
  CASE entered = "InGame" ->
         start_up(spawn_ball(spawn_first_ball(
           [w EXCEPT !.views = NoViews, !.lastBallDestroyed = 0])))
    [] entered = "RestartInGame" -> continue_restart_game(w)
    [] OTHER -> w

\* OnEnter(InGameState::Preparation): spawn_preparation_view, and
\* OnEnter(InGameState::Summary): spawn_summary_view; the views count how
\* often the session entered the mode
OnEnterInGameState(entered, w) ==
  CASE entered = "Preparation" -> [w EXCEPT !.views.preparation = Cap(@ + 1)]
    [] entered = "Summary" -> [w EXCEPT !.views.summary = Cap(@ + 1)]
    [] OTHER -> w

\* apply_state_transition::<AppState>: take the request; when it names
\* another state, run OnExit(exited) and then OnEnter(entered)
ApplyAppStateTransition(w) ==
  IF w.nextApp = NoRequest THEN w
  ELSE LET entered == w.nextApp
           exited == w.app
           taken == [w EXCEPT !.nextApp = NoRequest]
       IN IF entered = exited THEN taken
          ELSE OnEnterAppState(entered,
                 OnExitAppState(exited, [taken EXCEPT !.app = entered]))

\* apply_state_transition::<InGameState>
ApplyInGameStateTransition(w) ==
  IF w.nextMode = NoRequest THEN w
  ELSE LET entered == w.nextMode
           taken == [w EXCEPT !.nextMode = NoRequest]
       IN IF entered = w.mode THEN taken
          ELSE OnEnterInGameState(entered, [taken EXCEPT !.mode = entered])

\* The StateTransition schedule holds one apply_state_transition system per
\* state type, with no ordering between them.
RunStateTransition(order, w) ==
  IF order = "AppStateFirst"
  THEN ApplyInGameStateTransition(ApplyAppStateTransition(w))
  ELSE ApplyAppStateTransition(ApplyInGameStateTransition(w))

\* ------------------------------------------------------- the Update schedule
\* GamePlugin's systems of Update, by the run_if of their group
PreparationGroup == {"check_preparation_end_condition"}
PlayGroup ==
  {"move_balls", "test_settings", "keep_destroying_balls",
   "keep_spawning_bricks", "collect_collectables"}
PauseGroup == {"check_pause_interactions"}
SummaryGroup == {"check_summary_interactions"}
TransitionChecks ==
  {"check_menu_condition", "check_restart_condition",
   "check_toggle_pause_condition", "check_summary_condition"}

\* BallPlugin's systems of Update: (move_balls, bounce_ball_on_obstacles,
\* bounce_ball_on_edges).chain()
BallChain ==
  <<"BallPlugin::move_balls", "bounce_ball_on_obstacles", "bounce_ball_on_edges">>
BallPluginSystems == {BallChain[i] : i \in 1..Len(BallChain)}

MenuPluginSystems == {"check_menu_interactions"}

Systems ==
  PreparationGroup \cup PlayGroup \cup PauseGroup \cup SummaryGroup
    \cup TransitionChecks \cup BallPluginSystems \cup MenuPluginSystems

\* a slip: the condition follows a pending request
in_requested_state(current, requested, s) ==
  IF requested # NoRequest THEN requested = s ELSE current = s

\* in_state(s): the condition reads State<S>, never NextState<S>
in_state(current, requested, s) == current = s

\* a slip: the Play group has lost its run_if(in_state(InGameState::Play))
RunCondition_play_ungated(sys) ==
  LET app(s) == in_state(appState, nextAppState, s)
      mode(s) == in_state(inGameState, nextInGameState, s)
  IN CASE sys \in PreparationGroup -> mode("Preparation") /\ app("InGame")
       [] sys \in PlayGroup -> app("InGame")
       [] sys \in PauseGroup -> mode("Pause") /\ app("InGame")
       [] sys \in SummaryGroup -> mode("Summary") /\ app("InGame")
       [] sys \in TransitionChecks -> app("InGame")
       [] sys \in BallPluginSystems -> mode("Play")
       [] sys \in MenuPluginSystems -> app("Menu")

\* the run conditions of a system, outermost group last
RunCondition(sys) ==
  LET app(s) == in_state(appState, nextAppState, s)
      mode(s) == in_state(inGameState, nextInGameState, s)
  IN CASE sys \in PreparationGroup -> mode("Preparation") /\ app("InGame")
       [] sys \in PlayGroup -> mode("Play") /\ app("InGame")
       [] sys \in PauseGroup -> mode("Pause") /\ app("InGame")
       [] sys \in SummaryGroup -> mode("Summary") /\ app("InGame")
       [] sys \in TransitionChecks -> app("InGame")
       [] sys \in BallPluginSystems -> mode("Play")
       [] sys \in MenuPluginSystems -> app("Menu")

\* access classes, run one after the other (see the head of the module)
ResourceOrder ==
  <<"test_settings", "collect_collectables", "keep_spawning_bricks">>
ResourceSystems == {ResourceOrder[i] : i \in 1..Len(ResourceOrder)}
KinematicSystems == BallPluginSystems \cup {"move_balls"}
MachineSystems == Systems \ (ResourceSystems \cup KinematicSystems)

\* the machine systems around NextState<AppState> and those around
\* NextState<InGameState>; check_pause_interactions writes queues of both
AppSide ==
  {"check_menu_condition", "check_restart_condition",
   "check_summary_interactions", "check_menu_interactions"}
ModeSide ==
  {"check_toggle_pause_condition", "check_summary_condition",
   "check_preparation_end_condition", "keep_destroying_balls"}

Before(order, sys) ==
  {order[i] : i \in {j \in 1..Len(order) : \E k \in (j + 1)..Len(order) : order[k] = sys}}

\* the system may run now
Ready(sys) ==
  /\ pc = "Systems"
  /\ sys \in todo
  /\ CASE sys \in ResourceSystems -> todo \cap Before(ResourceOrder, sys) = {}
       [] sys \in ModeSide ->
            /\ todo \cap ResourceSystems = {}
            /\ RunCondition("check_pause_interactions") \/ todo \cap AppSide = {}
       [] sys \in MachineSystems -> todo \cap ResourceSystems = {}
       [] sys \in BallPluginSystems ->
            /\ todo \cap (ResourceSystems \cup MachineSystems) = {}
            /\ todo \cap Before(BallChain, sys) = {}
       [] OTHER -> todo \cap (ResourceSystems \cup MachineSystems) = {}

\* --------------------------------------------------------- the environment
\* What the environment may do in one frame: the keys other than Escape and
\* the mouse button that become just-pressed while the preparation check
\* reads them, the just-pressed setting keys and held digits test_settings
\* reads, whether a ball meets a pickup, the ticks of time that pass, and how
\* many events one run of a view's interaction system writes.
MachineEnv ==
  [prepKeys |-> ArrowKeys \cup {"Space"}, mouse |-> BOOLEAN,
   settingKeys |-> {{}}, digits |-> {{}}, pickup |-> {FALSE}, delta |-> {0},
   emit |-> MaxEvents]

SessionEnv ==
  [prepKeys |-> {"Space"}, mouse |-> {FALSE},
   settingKeys |-> {{}, {"KeyQ"}, {"KeyE"}}, digits |-> {{}, Digits},
   pickup |-> BOOLEAN, delta |-> {0, 1}, emit |-> 1]

\* the settings under every combination of setting keys and held digits,
\* with no other activity
SettingsEnv ==
  [prepKeys |-> {"Space"}, mouse |-> {FALSE},
   settingKeys |-> SUBSET {"KeyQ", "KeyE"},
   digits |-> {{}, {1}, {2, 3}, {4, 5}, Digits},
   pickup |-> {FALSE}, delta |-> {0}, emit |-> 0]

\* ------------------------------------------------------------------ the log
\* what the systems of the running frame did, for the properties
EmptyLog ==
  [mode |-> "None", restarted |-> FALSE, carry |-> FALSE, other |-> FALSE,
   arrow |-> FALSE, fired |-> {}, emitted |-> {}, causes |-> {}, ran |-> {},
   justPressed |-> {}, pressed |-> {}, before |-> DefaultSettings]

Ran(sys) == [log EXCEPT !.ran = @ \cup {sys}]

Fired(l, check) == [l EXCEPT !.fired = @ \cup {check}]

Emitted(l, types) == [l EXCEPT !.emitted = @ \cup types]

\* ------------------------------------------------------------------ frames
Init ==
  /\ appState = "Menu"
  /\ nextAppState = NoRequest
  /\ inGameState = "None"
  /\ nextInGameState = NoRequest
  /\ transitionOrder \in {"AppStateFirst", "InGameStateFirst"}
  /\ escape = FALSE
  /\ events = NoEvents
  /\ pc = "Systems"
  /\ todo = {}
  /\ balls = 0
  /\ score = 0
  /\ cooldown = CooldownDefault
  /\ settings = DefaultSettings
  /\ ballSteps = <<>>
  /\ views = NoViews
  /\ lastBallDestroyed = 0
  /\ log = EmptyLog

\* the frame is over: every system of Update has run
FrameEnd == pc = "Systems" /\ todo = {}

\* First and PreUpdate: event_update_system swaps the event buffers, then the
\* input systems set what is just pressed in this frame
First ==
  /\ FrameEnd
  /\ events' = event_update(events)
  /\ escape' \in BOOLEAN
  /\ ballSteps' = <<>>
  /\ log' = [EmptyLog EXCEPT !.carry =
               /\ log.mode \in {"Play", "Pause"}
               /\ log.fired = {"check_toggle_pause_condition"}
               /\ log.causes = {"escape"}
               /\ events["TogglePauseRequested"].new > 0]
  /\ pc' = "StateTransition"
  /\ UNCHANGED <<appState, nextAppState, inGameState, nextInGameState,
                 transitionOrder, todo, balls, score, cooldown, settings,
                 views, lastBallDestroyed>>

\* StateTransition: both apply_state_transition systems
StateTransition ==
  /\ pc = "StateTransition"
  /\ LET w == RunStateTransition(transitionOrder, World)
     IN /\ appState' = w.app
        /\ nextAppState' = w.nextApp
        /\ inGameState' = w.mode
        /\ nextInGameState' = w.nextMode
        /\ balls' = w.balls
        /\ score' = w.score
        /\ cooldown' = w.cooldown
        /\ settings' = w.settings
        /\ views' = w.views
        /\ lastBallDestroyed' = w.lastBallDestroyed
        /\ log' = [log EXCEPT !.restarted =
                     appState = "RestartInGame" /\ w.app = "InGame"]
  /\ pc' = "Update"
  /\ UNCHANGED <<transitionOrder, escape, events, todo, ballSteps>>

\* Update starts: the run conditions decide which systems run in this frame.
\* They read State<AppState> and State<InGameState>, which no system of
\* Update writes, so they are evaluated once.
Update ==
  /\ pc = "Update"
  /\ todo' = {sys \in Systems : RunCondition(sys)}
  /\ log' = [log EXCEPT !.mode = inGameState]
  /\ pc' = "Systems"
  /\ UNCHANGED <<appState, nextAppState, inGameState, nextInGameState,
                 transitionOrder, escape, events, balls, score, cooldown,
                 settings, ballSteps, views, lastBallDestroyed>>

\* every system action: the system leaves the frame's work list
Done(sys) ==
  /\ todo' = todo \ {sys}
  /\ UNCHANGED <<appState, inGameState, transitionOrder, escape, pc, views>>

\* ------------------------------------------------ systems: transition checks
\* the keys get_just_pressed() can hold in this frame
JustPressedCases(env) ==
  {ks \in SUBSET (env.prepKeys \cup {"Escape"}) :
     /\ Cardinality(ks) <= MaxKeys
     /\ "Escape" \in ks <=> escape}

\* a slip: the key is not compared with the arrow keys
check_preparation_end_condition_any_key(env) ==
  /\ Ready("check_preparation_end_condition")
  /\ \E justPressed \in JustPressedCases(env), mouseJustPressed \in env.mouse :
       LET ran == [Ran("check_preparation_end_condition") EXCEPT
                     !.other = mouseJustPressed \/ justPressed \ ArrowKeys # {},
                     !.arrow = justPressed \cap ArrowKeys # {}]
           fired == Fired(ran, "check_preparation_end_condition")
       IN IF justPressed # {} \/ mouseJustPressed
          THEN nextInGameState' = "Play" /\ log' = fired
          ELSE nextInGameState' = nextInGameState /\ log' = ran
  /\ Done("check_preparation_end_condition")
  /\ UNCHANGED <<nextAppState, events, balls, score, cooldown, settings,
                 ballSteps, lastBallDestroyed>>

check_preparation_end_condition(env) ==
  /\ Ready("check_preparation_end_condition")
  /\ \E justPressed \in JustPressedCases(env), mouseJustPressed \in env.mouse :
       LET ran == [Ran("check_preparation_end_condition") EXCEPT
                     !.other = mouseJustPressed \/ justPressed \ ArrowKeys # {},
                     !.arrow = justPressed \cap ArrowKeys # {}]
           fired == Fired(ran, "check_preparation_end_condition")
       IN \/ \* get_just_pressed().next(): the set's iteration order decides
             \E key \in justPressed :
               IF key # "ArrowLeft" /\ key # "ArrowRight"
               THEN nextInGameState' = "Play" /\ log' = fired
               ELSE nextInGameState' = nextInGameState /\ log' = ran
          \/ /\ justPressed = {}
             /\ IF mouseJustPressed
                THEN nextInGameState' = "Play" /\ log' = fired
                ELSE nextInGameState' = nextInGameState /\ log' = ran
  /\ Done("check_preparation_end_condition")
  /\ UNCHANGED <<nextAppState, events, balls, score, cooldown, settings,
                 ballSteps, lastBallDestroyed>>

\* a slip: the queue is cleared before it is tested
check_menu_condition_clear_first ==
  /\ Ready("check_menu_condition")
  /\ events' = clear(events, "MenuRequested")
  /\ IF is_empty(clear(events, "MenuRequested"), "MenuRequested")
     THEN /\ UNCHANGED nextAppState
          /\ log' = Ran("check_menu_condition")
     ELSE /\ nextAppState' = "Menu"
          /\ log' = Fired(Ran("check_menu_condition"), "check_menu_condition")
  /\ Done("check_menu_condition")
  /\ UNCHANGED <<nextInGameState, balls, score, cooldown, settings, ballSteps,
                 lastBallDestroyed>>

check_menu_condition ==
  /\ Ready("check_menu_condition")
  /\ IF is_empty(events, "MenuRequested")
     THEN /\ UNCHANGED <<events, nextAppState>>
          /\ log' = Ran("check_menu_condition")
     ELSE /\ events' = clear(events, "MenuRequested")
          /\ nextAppState' = "Menu"
          /\ log' = Fired(Ran("check_menu_condition"), "check_menu_condition")
  /\ Done("check_menu_condition")
  /\ UNCHANGED <<nextInGameState, balls, score, cooldown, settings, ballSteps,
                 lastBallDestroyed>>

check_restart_condition ==
  /\ Ready("check_restart_condition")
  /\ IF is_empty(events, "RestartRequested")
     THEN /\ UNCHANGED <<events, nextAppState>>
          /\ log' = Ran("check_restart_condition")
     ELSE /\ events' = clear(events, "RestartRequested")
          /\ nextAppState' = "RestartInGame"
          /\ log' = Fired(Ran("check_restart_condition"), "check_restart_condition")
  /\ Done("check_restart_condition")
  /\ UNCHANGED <<nextInGameState, balls, score, cooldown, settings, ballSteps,
                 lastBallDestroyed>>

\* a slip: the early return is taken when events are waiting
check_summary_condition_inverted ==
  /\ Ready("check_summary_condition")
  /\ IF ~is_empty(events, "LastBallDestroyed")
     THEN /\ UNCHANGED <<events, nextInGameState>>
          /\ log' = Ran("check_summary_condition")
     ELSE /\ events' = clear(events, "LastBallDestroyed")
          /\ nextInGameState' = "Summary"
          /\ log' = Fired(Ran("check_summary_condition"), "check_summary_condition")
  /\ Done("check_summary_condition")
  /\ UNCHANGED <<nextAppState, balls, score, cooldown, settings, ballSteps,
                 lastBallDestroyed>>

check_summary_condition ==
  /\ Ready("check_summary_condition")
  /\ IF is_empty(events, "LastBallDestroyed")
     THEN /\ UNCHANGED <<events, nextInGameState>>
          /\ log' = Ran("check_summary_condition")
     ELSE /\ events' = clear(events, "LastBallDestroyed")
          /\ nextInGameState' = "Summary"
          /\ log' = Fired(Ran("check_summary_condition"), "check_summary_condition")
  /\ Done("check_summary_condition")
  /\ UNCHANGED <<nextAppState, balls, score, cooldown, settings, ballSteps,
                 lastBallDestroyed>>

\* what makes check_toggle_pause_condition toggle: the Escape press, events
\* written in an earlier frame, events written in this frame
ToggleCauses ==
  {c \in {"escape", "old", "new"} :
     \/ c = "escape" /\ escape
     \/ c = "old" /\ events["TogglePauseRequested"].old > 0
     \/ c = "new" /\ events["TogglePauseRequested"].new > 0}

\* a slip: the comparison names the wrong mode
toggled_from_pause(current) == IF current = "Pause" THEN "Pause" ELSE "Play"

\* the mode check_toggle_pause_condition requests
toggled(current) == IF current = "Play" THEN "Pause" ELSE "Play"

check_toggle_pause_condition ==
  /\ Ready("check_toggle_pause_condition")
  /\ LET unread == ~is_empty(events, "TogglePauseRequested")
         toggle == unread \/ escape
     IN /\ events' = IF unread THEN clear(events, "TogglePauseRequested") ELSE events
        /\ IF ~toggle
           THEN /\ nextInGameState' = nextInGameState
                /\ log' = Ran("check_toggle_pause_condition")
           ELSE /\ nextInGameState' = toggled(inGameState)
                /\ log' = [Fired(Ran("check_toggle_pause_condition"),
                                 "check_toggle_pause_condition")
                             EXCEPT !.causes = ToggleCauses]
  /\ Done("check_toggle_pause_condition")
  /\ UNCHANGED <<nextAppState, balls, score, cooldown, settings, ballSteps,
                 lastBallDestroyed>>

\* ---------------------------------------------------- systems: Play group
\* Setting::change_points: one step, kept inside the step range
change_points(points, value) ==
  IF points + value > SettingMax THEN SettingMax
  ELSE IF points + value < SettingMin THEN SettingMin
  ELSE points + value

\* BrickGhost::set_enabled
set_enabled(ghost, enabled) == enabled

\* a slip: the points are stepped without change_points
TestSettings_unclamped(justPressed, pressed, st) ==
  LET value == IF "KeyQ" \in justPressed THEN -1
               ELSE IF "KeyE" \in justPressed THEN 1
               ELSE 0
      step(digit, points) ==
        IF digit \in pressed THEN points + value ELSE points
  IN IF value = 0 THEN st
     ELSE [paddle_size |-> step(1, st.paddle_size),
           paddle_speed |-> step(2, st.paddle_speed),
           ball_size |-> step(3, st.ball_size),
           ball_speed |-> step(4, st.ball_speed),
           brick_ghost |-> IF 5 \in pressed
                           THEN set_enabled(st.brick_ghost, value > 0)
                           ELSE st.brick_ghost]

\* a slip: the paddle speed is stepped whether or not Digit2 is held
TestSettings_any_digit(justPressed, pressed, st) ==
  LET value == IF "KeyQ" \in justPressed THEN -1
               ELSE IF "KeyE" \in justPressed THEN 1
               ELSE 0
      step(digit, points) ==
        IF digit \in pressed THEN change_points(points, value) ELSE points
  IN IF value = 0 THEN st
     ELSE [paddle_size |-> step(1, st.paddle_size),
           paddle_speed |-> change_points(st.paddle_speed, value),
           ball_size |-> step(3, st.ball_size),
           ball_speed |-> step(4, st.ball_speed),
           brick_ghost |-> IF 5 \in pressed
                           THEN set_enabled(st.brick_ghost, value > 0)
                           ELSE st.brick_ghost]

\* test_settings with the keys just pressed and the keys held
TestSettings(justPressed, pressed, st) ==
  LET value == IF "KeyQ" \in justPressed THEN -1
               ELSE IF "KeyE" \in justPressed THEN 1
               ELSE 0
      step(digit, points) ==
        IF digit \in pressed THEN change_points(points, value) ELSE points
  IN IF value = 0 THEN st
     ELSE [paddle_size |-> step(1, st.paddle_size),
           paddle_speed |-> step(2, st.paddle_speed),
           ball_size |-> step(3, st.ball_size),
           ball_speed |-> step(4, st.ball_speed),
           brick_ghost |-> IF 5 \in pressed
                           THEN set_enabled(st.brick_ghost, value > 0)
                           ELSE st.brick_ghost]

test_settings(env) ==
  /\ Ready("test_settings")
  /\ \E justPressed \in env.settingKeys, pressed \in env.digits :
       /\ settings' = TestSettings(justPressed, pressed, settings)
       /\ log' = [Ran("test_settings") EXCEPT !.justPressed = justPressed,
                    !.pressed = pressed, !.before = settings]
  /\ Done("test_settings")
  /\ UNCHANGED <<nextAppState, nextInGameState, events, balls, score, cooldown,
                 ballSteps, lastBallDestroyed>>

\* collect_collectables: a collected pickup raises the Score
collect_collectables(env) ==
  /\ Ready("collect_collectables")
  /\ \E pickup \in env.pickup :
       score' = IF pickup /\ score < MaxScore THEN score + 1 ELSE score
  /\ log' = Ran("collect_collectables")
  /\ Done("collect_collectables")
  /\ UNCHANGED <<nextAppState, nextInGameState, events, balls, cooldown,
                 settings, ballSteps, lastBallDestroyed>>

\* keep_spawning_bricks: the cooldown runs down with time and restarts with
\* a new row of bricks
keep_spawning_bricks(env) ==
  /\ Ready("keep_spawning_bricks")
  /\ \E delta \in env.delta :
       cooldown' = IF delta = 0 THEN cooldown
                   ELSE IF cooldown = 0 THEN CooldownDefault
                   ELSE cooldown - 1
  /\ log' = Ran("keep_spawning_bricks")
  /\ Done("keep_spawning_bricks")
  /\ UNCHANGED <<nextAppState, nextInGameState, events, balls, score, settings,
                 ballSteps, lastBallDestroyed>>

\* keep_destroying_balls: the balls that left through the bottom edge are
\* destroyed one by one; destroying the last remaining ball emits
\* LastBallDestroyed
keep_destroying_balls ==
  /\ Ready("keep_destroying_balls")
  /\ \E lost \in 0..balls :
       LET last == lost > 0 /\ lost = balls
       IN /\ balls' = balls - lost
          /\ events' = IF last THEN send(events, "LastBallDestroyed", 1) ELSE events
          /\ lastBallDestroyed' =
               IF last THEN Cap(lastBallDestroyed + 1) ELSE lastBallDestroyed
          /\ log' = IF last
                    THEN Emitted(Ran("keep_destroying_balls"), {"LastBallDestroyed"})
                    ELSE Ran("keep_destroying_balls")
  /\ Done("keep_destroying_balls")
  /\ UNCHANGED <<nextAppState, nextInGameState, score, cooldown, settings,
                 ballSteps>>

\* -------------------------------------------- systems: the view collaborators
\* what one run of a view's interaction system can write: per event type
\* the number of occurrences
Emissions(types, most) ==
  LET Sum(e) ==
        e["RestartRequested"] + e["MenuRequested"]
          + (IF "TogglePauseRequested" \in types
             THEN e["TogglePauseRequested"] ELSE 0)
  IN {e \in [types -> 0..most] : Sum(e) <= most}

SendAll(ev, e) ==
  [t \in EventTypes |-> IF t \in DOMAIN e THEN send(ev, t, e[t])[t] ELSE ev[t]]

\* check_pause_interactions: the pause view's buttons request continue,
\* restart or menu
check_pause_interactions(env) ==
  /\ Ready("check_pause_interactions")
  /\ \E e \in Emissions({"TogglePauseRequested", "RestartRequested", "MenuRequested"},
                        env.emit) :
       /\ events' = SendAll(events, e)
       /\ log' = Emitted(Ran("check_pause_interactions"),
                         {t \in DOMAIN e : e[t] > 0})
  /\ Done("check_pause_interactions")
  /\ UNCHANGED <<nextAppState, nextInGameState, balls, score, cooldown,
                 settings, ballSteps, lastBallDestroyed>>

\* check_summary_interactions: the summary view's buttons request restart or
\* menu
check_summary_interactions(env) ==
  /\ Ready("check_summary_interactions")
  /\ \E e \in Emissions({"RestartRequested", "MenuRequested"}, env.emit) :
       /\ events' = SendAll(events, e)
       /\ log' = Emitted(Ran("check_summary_interactions"),
                         {t \in DOMAIN e : e[t] > 0})
  /\ Done("check_summary_interactions")
  /\ UNCHANGED <<nextAppState, nextInGameState, balls, score, cooldown,
                 settings, ballSteps, lastBallDestroyed>>

\* check_menu_interactions: the menu's play button starts a session
check_menu_interactions ==
  /\ Ready("check_menu_interactions")
  /\ \E play \in BOOLEAN :
       nextAppState' = IF play THEN "InGame" ELSE nextAppState
  /\ log' = Ran("check_menu_interactions")
  /\ Done("check_menu_interactions")
  /\ UNCHANGED <<nextInGameState, events, balls, score, cooldown, settings,
                 ballSteps, lastBallDestroyed>>

\* ------------------------------------------------- systems: ball kinematics
\* a kinematic system applies its step to every ball
Apply(sys, step) ==
  /\ Ready(sys)
  /\ ballSteps' = Append(ballSteps, step)
  /\ log' = Ran(sys)
  /\ Done(sys)
  /\ UNCHANGED <<nextAppState, nextInGameState, events, balls, score, cooldown,
                 settings, lastBallDestroyed>>

\* GamePlugin, Play group: move_balls
move_balls == Apply("move_balls", "integrate")

\* BallPlugin: move_balls, first of the chain
BallPlugin_move_balls == Apply("BallPlugin::move_balls", "integrate")

bounce_ball_on_obstacles == Apply("bounce_ball_on_obstacles", "obstacles")

bounce_ball_on_edges == Apply("bounce_ball_on_edges", "edges")

\* ---------------------------------------------------------- specification
NextIn(env) ==
  \/ First
  \/ StateTransition
  \/ Update
  \/ check_menu_interactions
  \/ check_preparation_end_condition(env)
  \/ check_menu_condition
  \/ check_restart_condition
  \/ check_toggle_pause_condition
  \/ check_summary_condition
  \/ test_settings(env)
  \/ collect_collectables(env)
  \/ keep_spawning_bricks(env)
  \/ keep_destroying_balls
  \/ check_pause_interactions(env)
  \/ check_summary_interactions(env)
  \/ move_balls
  \/ BallPlugin_move_balls
  \/ bounce_ball_on_obstacles
  \/ bounce_ball_on_edges

\* the state machine under every input it reads
Next == NextIn(MachineEnv)

Spec == Init /\ [][Next]_vars

\* the session under the inputs that change Score, cooldown and settings
NextSession == NextIn(SessionEnv)

SpecSession == Init /\ [][NextSession]_vars

\* the session under every combination of setting keys
NextSettings == NextIn(SettingsEnv)

SpecSettings == Init /\ [][NextSettings]_vars

TypeOK ==
  /\ appState \in AppStates
  /\ nextAppState \in AppStates \cup {NoRequest}
  /\ inGameState \in InGameStates
  /\ nextInGameState \in InGameStates \cup {NoRequest}
  /\ todo \subseteq Systems
  /\ balls \in 0..2
  /\ score \in 0..MaxScore
  /\ cooldown \in 0..CooldownDefault
  /\ \A t \in EventTypes : events[t].new \in 0..MaxEvents /\ events[t].old \in 0..MaxEvents

\* ------------------------------------------------------------ properties
\* an in-session tick is over: the transition checks of this frame have run
TickEnd == FrameEnd /\ appState = "InGame"

\* what the next frame's StateTransition makes of the requests now pending
NextTick == RunStateTransition(transitionOrder, World)

Defaults(w) ==
  /\ w.score = 0
  /\ w.cooldown = CooldownDefault
  /\ w.settings = DefaultSettings

\* the mode whose run_if gates a system, "Any" for a system no mode gates
GroupOf(sys) ==
  CASE sys = "check_preparation_end_condition" -> "Preparation"
    [] sys \in {"move_balls", "test_settings", "keep_destroying_balls",
                "keep_spawning_bricks", "collect_collectables",
                "BallPlugin::move_balls", "bounce_ball_on_obstacles",
                "bounce_ball_on_edges"} -> "Play"
    [] sys = "check_pause_interactions" -> "Pause"
    [] sys = "check_summary_interactions" -> "Summary"
    [] OTHER -> "Any"

\* C1: a tick in which check_menu_condition and check_restart_condition both
\* find their event pending leaves AppState::Menu as the next top-level
\* state, never AppState::RestartInGame.
C1_MenuWinsOverRestart ==
  (TickEnd /\ {"check_menu_condition", "check_restart_condition"} \subseteq log.fired)
    => NextTick.app = "Menu"

\* C2: a tick in mode Play in which LastBallDestroyed is emitted and no menu
\* or restart request ends the session is followed by a tick in mode
\* Summary, also when a pause input occurs in the same tick.
C2_LastBallLeadsToSummary ==
  (/\ TickEnd
   /\ log.mode = "Play"
   /\ "LastBallDestroyed" \in log.emitted
   /\ nextAppState = NoRequest)
    => NextTick.mode = "Summary"

\* C3: a tick in mode Preparation in which some input other than the arrow
\* keys is just pressed is followed by a tick in mode Play, whatever else is
\* just pressed.
C3_PreparationEndsOnOtherInput ==
  (TickEnd /\ log.mode = "Preparation" /\ log.other) => NextTick.mode = "Play"

C5_RestartReachesPreparation ==
  /\ (TickEnd /\ "check_restart_condition" \in log.fired
        /\ "check_menu_condition" \notin log.fired)
       => NextTick.app = "RestartInGame"
  /\ (FrameEnd /\ appState = "RestartInGame") => NextTick.app = "InGame"
  /\ (TickEnd /\ log.restarted)
       => /\ Defaults(World)
          /\ log.mode = "Preparation" \/ NextTick.mode = "Preparation"

\* C6: when the AppState leaves InGame, Score, cooldown and the five settings
\* are at their defaults and the mode is None or becomes None with the next
\* frame, whatever they were and whatever request was pending.
C6_SessionEndResets ==
  /\ (FrameEnd /\ appState = "InGame" /\ NextTick.app # "InGame")
       => /\ Defaults(NextTick)
          /\ NextTick.mode = "None" \/ NextTick.nextMode = "None"
  /\ appState # "InGame"
       => /\ Defaults(World)
          /\ inGameState = "None" \/ nextInGameState = "None"
  /\ (FrameEnd /\ appState # "InGame")
       => \/ NextTick.mode = "None"
          \/ NextTick.app = "InGame" /\ NextTick.mode = "Preparation"

C6_Witness ==
  /\ FrameEnd
  /\ appState = "InGame"
  /\ nextAppState = "Menu"
  /\ nextInGameState = "Pause"
  /\ score > 0
  /\ cooldown # CooldownDefault
  /\ settings.ball_speed # SettingDefault
  /\ settings.brick_ghost

\* C7: the pause inputs of one tick toggle the mode once: after a tick in
\* which the Escape press alone toggled the mode and a TogglePauseRequested
\* was written as well, that event does not toggle the mode a second time.
C7_OneTogglePerTick ==
  (TickEnd /\ log.carry)
    => ~(log.fired = {"check_toggle_pause_condition"} /\ log.causes = {"old"})

\* C8: while the systems of a frame run the mode is the one the frame
\* started with, and every mode-gated system that runs or is to run in the
\* frame belongs to that mode.
C8_ModeFixedWithinTick ==
  pc = "Systems"
    => /\ inGameState = log.mode
       /\ \A sys \in log.ran \cup todo : GroupOf(sys) \in {"Any", log.mode}

C8_Witness ==
  /\ pc = "Systems"
  /\ inGameState = "Play"
  /\ nextInGameState = "Pause"
  /\ "check_toggle_pause_condition" \in log.fired
  /\ "move_balls" \in log.ran

\* C9: a tick in mode Play applies to the balls exactly the motion
\* integration, then the obstacle bounce, then the edge bounce.
C9_BallStepsOnceInOrder ==
  (TickEnd /\ log.mode = "Play")
    => ballSteps = <<"integrate", "obstacles", "edges">>

PointSettings == {"paddle_size", "paddle_speed", "ball_size", "ball_speed"}

\* the digit key that selects a setting
DigitOf(name) ==
  CASE name = "paddle_size" -> 1
    [] name = "paddle_speed" -> 2
    [] name = "ball_size" -> 3
    [] name = "ball_speed" -> 4
    [] name = "brick_ghost" -> 5

\* C11: the points of PaddleSize, PaddleSpeed, BallSize and BallSpeed are
\* always inside the step range; a raise at the maximum leaves a setting at
\* the maximum and a lowering at the minimum leaves it at the minimum.
C11_PointsStayInRange ==
  \A name \in PointSettings :
    /\ settings[name] \in SettingMin..SettingMax
    /\ ("test_settings" \in log.ran /\ DigitOf(name) \in log.pressed)
         => /\ (log.justPressed = {"KeyE"} /\ log.before[name] = SettingMax)
                 => settings[name] = SettingMax
            /\ (log.justPressed = {"KeyQ"} /\ log.before[name] = SettingMin)
                 => settings[name] = SettingMin

C11_Witness ==
  /\ "test_settings" \in log.ran
  /\ log.justPressed = {"KeyE"}
  /\ 4 \in log.pressed
  /\ log.before.ball_speed = SettingMax
  /\ settings.ball_speed = SettingMax

\* C12: a tick in mode Preparation in which nothing but arrow keys is just
\* pressed and no transition check fires is followed by a tick in mode
\* Preparation.
C12_ArrowsKeepPreparation ==
  (/\ TickEnd
   /\ log.mode = "Preparation"
   /\ ~log.other
   /\ ~escape
   /\ log.fired \cap TransitionChecks = {})
    => NextTick.mode = "Preparation"

C12_Witness ==
  /\ TickEnd
  /\ log.mode = "Preparation"
  /\ log.arrow
  /\ ~log.other
  /\ ~escape
  /\ NextTick.mode = "Preparation"

\* C13: a pause input read in mode Summary, Preparation or None leaves the
\* mode as it would be without it, and a session in mode Summary stays in
\* Summary until a menu or restart request ends it.
C13_PauseInputOnlyInPlayAndPause ==
  /\ (TickEnd /\ log.mode = "Summary" /\ nextAppState = NoRequest)
       => NextTick.mode = "Summary"
  /\ (/\ TickEnd
      /\ log.mode \in {"Preparation", "None"}
      /\ escape \/ log.causes # {}
      /\ ~log.other
      /\ log.fired \subseteq {"check_toggle_pause_condition"})
       => NextTick.mode \in {log.mode, "Preparation"}

\* C14: while the session is in mode Pause or Summary no step changes the
\* balls, the Score, the BrickRowSpawnCooldown or the five settings.
C14_FrozenInPauseAndSummary ==
  [][(/\ appState = "InGame" /\ appState' = "InGame"
      /\ inGameState \in {"Pause", "Summary"}
      /\ inGameState' \in {"Pause", "Summary"})
       => UNCHANGED <<balls, ballSteps, score, cooldown, settings>>]_vars

C14_Witness ==
  /\ TickEnd
  /\ log.mode = "Pause"
  /\ "check_pause_interactions" \in log.ran
  /\ escape
  /\ balls > 0
  /\ score > 0
  /\ cooldown # CooldownDefault
  /\ settings.brick_ghost

\* a step inside the step range
Within(points) ==
  IF points > SettingMax THEN SettingMax
  ELSE IF points < SettingMin THEN SettingMin
  ELSE points

\* C15: a run of test_settings with neither Q nor E just pressed leaves the
\* five settings as they were, whatever digits are held; with Q alone just
\* pressed (delta -1) or E alone (delta +1) it applies the delta once, inside
\* the step range, to the settings whose digit is held, sets BrickGhost to
\* delta > 0 when digit 5 is held, and leaves every other setting as it was.
C15_SettingsEdgeTriggered ==
  "test_settings" \in log.ran
    => LET edges == log.justPressed \cap {"KeyQ", "KeyE"}
           delta == IF edges = {"KeyQ"} THEN -1 ELSE 1
       IN /\ edges = {} => settings = log.before
          /\ Cardinality(edges) = 1
               => /\ \A name \in PointSettings :
                       settings[name] =
                         IF DigitOf(name) \in log.pressed
                         THEN Within(log.before[name] + delta)
                         ELSE log.before[name]
                  /\ settings.brick_ghost =
                       IF 5 \in log.pressed THEN delta > 0
                       ELSE log.before.brick_ghost

C15_Witness ==
  /\ "test_settings" \in log.ran
  /\ log.justPressed = {"KeyE"}
  /\ log.pressed = {4, 5}
  /\ log.before = [DefaultSettings EXCEPT !.paddle_size = SettingMin]
  /\ settings = [log.before EXCEPT !.ball_speed = SettingDefault + 1,
                                    !.brick_ghost = TRUE]

\* C16: no system of Update runs in a session while the mode is None, and a
\* session is in mode Play only after it has been in mode Preparation.
C16_SessionStartsInPreparation ==
  /\ (pc = "Systems" /\ appState = "InGame") => inGameState # "None"
  /\ (appState = "InGame" /\ inGameState = "Play") => views.preparation >= 1

\* C17: a tick of a session that starts in mode Play, with no
\* LastBallDestroyed waiting for its check, has a live ball.
C17_PlayHasABall ==
  (/\ pc = "Update"
   /\ appState = "InGame"
   /\ inGameState = "Play"
   /\ is_empty(events, "LastBallDestroyed"))
    => balls >= 1

\* the transition check that reads an event type
CheckOf(t) ==
  CASE t = "MenuRequested" -> "check_menu_condition"
    [] t = "RestartRequested" -> "check_restart_condition"
    [] t = "TogglePauseRequested" -> "check_toggle_pause_condition"
    [] t = "LastBallDestroyed" -> "check_summary_condition"

====
